---- MODULE Spec2Model ----
(***************************************************************************)
(* Spend Growth Management simulator: the stateless engine of              *)
(* src/sgm_simulator.py (SGMEngine) and the loop that carries its output   *)
(* from one simulated day to the next.                                     *)
(*                                                                         *)
(* Amounts are integers in cents.  Python's float division is modelled as  *)
(* fixed-point division rounding down (\div); addition, subtraction, min   *)
(* and max are exact.  Percentages are whole percents.  An Optional value  *)
(* is the empty sequence (None) or a one-element sequence.                 *)
(***************************************************************************)
EXTENDS Integers, Sequences, FiniteSets, TLC

\* ------------------------------------------------------------------------
\* Helpers for Python builtins
\* ------------------------------------------------------------------------

None == <<>>

Some(v) == <<v>>

IsNone(o) == o = <<>>

Val(o) == o[1]

Min(a, b) == IF a <= b THEN a ELSE b

Max(a, b) == IF a >= b THEN a ELSE b

Max3(a, b, c) == Max(Max(a, b), c)

RECURSIVE SumSeq(_)
SumSeq(s) == IF s = <<>> THEN 0 ELSE s[1] + SumSeq(Tail(s))

\* accepted_history[-k:]
LastN(s, k) == IF Len(s) <= k THEN s ELSE SubSeq(s, Len(s) - k + 1, Len(s))

\* ------------------------------------------------------------------------
\* Domain models
\* ------------------------------------------------------------------------

\* __post_init__ with the growth bounds themselves rejected
post_init_open_bounds(growth_percentage, min_growth_dollars, weekly_recalc_day, validate_bounds) ==
    IF validate_bounds /\ ~(5 < growth_percentage /\ growth_percentage < 50)
    THEN "ValueError"
    ELSE IF validate_bounds /\ min_growth_dollars < 2000
    THEN "ValueError"
    ELSE IF ~(0 <= weekly_recalc_day /\ weekly_recalc_day <= 6)
    THEN "ValueError"
    ELSE "ok"

\* __post_init__ with the weekday check under validate_bounds as well
post_init_weekday_bypassed(growth_percentage, min_growth_dollars, weekly_recalc_day, validate_bounds) ==
    IF validate_bounds /\ ~(5 <= growth_percentage /\ growth_percentage <= 50)
    THEN "ValueError"
    ELSE IF validate_bounds /\ min_growth_dollars < 2000
    THEN "ValueError"
    ELSE IF validate_bounds /\ ~(0 <= weekly_recalc_day /\ weekly_recalc_day <= 6)
    THEN "ValueError"
    ELSE "ok"

\* SGMRule.__post_init__: "ValueError" when it raises, "ok" when the rule is
\* constructed (min_growth_dollars in cents, $20 = 2000)
post_init(growth_percentage, min_growth_dollars, weekly_recalc_day, validate_bounds) ==
    IF validate_bounds /\ ~(5 <= growth_percentage /\ growth_percentage <= 50)
    THEN "ValueError"
    ELSE IF validate_bounds /\ min_growth_dollars < 2000
    THEN "ValueError"
    ELSE IF ~(0 <= weekly_recalc_day /\ weekly_recalc_day <= 6)
    THEN "ValueError"
    ELSE "ok"

\* is_expired with the boundary day still counted as active
is_expired_late(a, current_day) ==
    IF IsNone(a.expiration_days)
    THEN FALSE
    ELSE current_day > a.created_day + Val(a.expiration_days)

\* ManualAllowance.is_expired
is_expired(a, current_day) ==
    IF IsNone(a.expiration_days)
    THEN FALSE
    ELSE current_day >= a.created_day + Val(a.expiration_days)

\* ManualAllowance.remaining_amount
remaining_amount(a, current_day) ==
    IF is_expired(a, current_day) THEN 0 ELSE a.amount

\* WalletConfig.calculate_max_capacity; a custom multiplier that is None or
\* 0 is falsy and falls through to the default
\* a supplied multiplier applied whatever the model is
calculate_max_capacity_any_model(wc, daily_limit) ==
    IF ~IsNone(wc.custom_multiplier) /\ Val(wc.custom_multiplier) # 0
    THEN daily_limit * Val(wc.custom_multiplier)
    ELSE IF wc.model = "three_day_budget" THEN daily_limit * 3
    ELSE daily_limit * 2

calculate_max_capacity(wc, daily_limit) ==
    IF wc.model = "daily_limit_2x" THEN daily_limit * 2
    ELSE IF wc.model = "three_day_budget" THEN daily_limit * 3
    ELSE IF wc.model = "custom" /\ ~IsNone(wc.custom_multiplier)
                                /\ Val(wc.custom_multiplier) # 0
         THEN daily_limit * Val(wc.custom_multiplier)
    ELSE daily_limit * 2

\* ReservedVolumesConfig.advance_billing_day
advance_billing_day(rc, current_day) ==
    LET next_day == current_day + 1
    IN  IF next_day > rc.days_in_cycle THEN 1 ELSE next_day

\* ------------------------------------------------------------------------
\* SGMEngine.calculate_daily_spend_limit
\* ------------------------------------------------------------------------

\* Denominator of the fixed-point growth factor
GF_DEN == 10000

\* x ** 7 in fixed point (x and the result in units of 1/GF_DEN)
Pow7(x) ==
    LET m(a, b) == (a * b) \div GF_DEN
    IN  m(m(m(m(m(m(x, x), x), x), x), x), x)

RECURSIVE Root7(_, _, _)
Root7(target, lo, hi) ==
    IF lo >= hi THEN lo
    ELSE LET mid == (lo + hi + 1) \div 2
         IN  IF Pow7(mid) <= target THEN Root7(target, mid, hi)
                                    ELSE Root7(target, lo, mid - 1)

\* (1 + g / 100) ** (1.0 / 7) in units of 1/GF_DEN, tabulated per whole percent
GrowthFactorTable ==
    [g \in 0..100 |->
        Root7(GF_DEN + (GF_DEN * g) \div 100, GF_DEN, GF_DEN + (GF_DEN * g) \div 700 + 1)]

growth_factor(rule) == GrowthFactorTable[rule.growth_percentage]

\* the trigger without the days-since-last-recalculation test
should_recalc_weekday_only(accepted_history, rule, current_day_index, last_recalc_day) ==
    /\ rule.weekly_recalc_enabled
    /\ Len(accepted_history) >= 7
    /\ current_day_index % 7 = rule.weekly_recalc_day

\* the weekly recalculation trigger
should_recalc(accepted_history, rule, current_day_index, last_recalc_day) ==
    /\ rule.weekly_recalc_enabled
    /\ Len(accepted_history) >= 7
    /\ current_day_index - last_recalc_day >= 7
    /\ current_day_index % 7 = rule.weekly_recalc_day

\* the baseline taken as the average of the whole history
recalc_baseline_whole_history(accepted_history) ==
    SumSeq(accepted_history) \div Len(accepted_history)

\* new baseline from the recent 7-day average
recalc_baseline(accepted_history) == SumSeq(LastN(accepted_history, 7)) \div 7

\* what the limit calculation divides by, besides the literals 7 and 100:
\* days_remaining and days_elapsed, on the bootstrap days after the first
limit_divisors(accepted_history) ==
    IF Len(accepted_history) < 7 /\ Len(accepted_history) # 0
    THEN { 7 - Len(accepted_history), Len(accepted_history) }
    ELSE {}

\* the bootstrap limit with the shortfall spread over the days elapsed
bootstrap_limit_per_elapsed(accepted_history, rule) ==
    IF Len(accepted_history) = 0
    THEN rule.min_growth_dollars \div 7
    ELSE LET days_elapsed   == Len(accepted_history)
             total_so_far   == SumSeq(accepted_history)
             needed_per_day == (rule.min_growth_dollars - total_so_far) \div days_elapsed
             current_avg    == total_so_far \div days_elapsed
             growth_based   == (current_avg * (100 + rule.growth_percentage)) \div 100
         IN  Max3(needed_per_day, growth_based, rule.min_growth_dollars \div 7)

\* bootstrap period, fewer than 7 days of history
bootstrap_limit(accepted_history, rule) ==
    IF Len(accepted_history) = 0
    THEN rule.min_growth_dollars \div 7
    ELSE LET days_elapsed   == Len(accepted_history)
             total_so_far   == SumSeq(accepted_history)
             days_remaining == 7 - days_elapsed
             needed_per_day == (rule.min_growth_dollars - total_so_far) \div days_remaining
             current_avg    == total_so_far \div days_elapsed
             growth_based   == (current_avg * (100 + rule.growth_percentage)) \div 100
         IN  Max3(needed_per_day, growth_based, rule.min_growth_dollars \div 7)

\* the fixed-baseline limit without the minimum weekly growth
baseline_limit_no_floor(baseline, rule) ==
    ((baseline * 7 * (100 + rule.growth_percentage)) \div 100) \div 7

\* fixed-baseline limit of the weekly recalculation mode
baseline_limit(baseline, rule) ==
    LET weekly_baseline     == baseline * 7
        weekly_growth_limit == Max(rule.min_growth_dollars,
                                   (weekly_baseline * (100 + rule.growth_percentage)) \div 100)
    IN  weekly_growth_limit \div 7

\* the rolling-window limit with the 7-day sum taken over the whole history
rolling_limit_all_history(accepted_history, rule) ==
    LET recent_7          == SumSeq(accepted_history)
        recent_6          == SumSeq(LastN(accepted_history, 6))
        exponential_limit == (recent_7 * growth_factor(rule)) \div GF_DEN - recent_6
        linear_limit      == recent_7 + rule.min_growth_dollars \div 7 - recent_6
    IN  Max3(exponential_limit, linear_limit, 0)

\* the rolling-window limit with the weekly factor applied to a single day
rolling_limit_weekly_factor(accepted_history, rule) ==
    LET recent_7          == SumSeq(LastN(accepted_history, 7))
        recent_6          == SumSeq(LastN(accepted_history, 6))
        exponential_limit == (recent_7 * (100 + rule.growth_percentage)) \div 100 - recent_6
        linear_limit      == recent_7 + rule.min_growth_dollars \div 7 - recent_6
    IN  Max3(exponential_limit, linear_limit, 0)

\* the rolling-window limit without its linear (minimum growth) term
rolling_limit_exponential_only(accepted_history, rule) ==
    LET recent_7          == SumSeq(LastN(accepted_history, 7))
        recent_6          == SumSeq(LastN(accepted_history, 6))
        exponential_limit == (recent_7 * growth_factor(rule)) \div GF_DEN - recent_6
    IN  Max(exponential_limit, 0)

\* rolling-window limit
rolling_limit(accepted_history, rule) ==
    LET recent_7          == SumSeq(LastN(accepted_history, 7))
        recent_6          == SumSeq(LastN(accepted_history, 6))
        exponential_limit == (recent_7 * growth_factor(rule)) \div GF_DEN - recent_6
        linear_limit      == recent_7 + rule.min_growth_dollars \div 7 - recent_6
    IN  Max3(exponential_limit, linear_limit, 0)

calculate_daily_spend_limit(accepted_history, rule, current_day_index, last_recalc_day, baseline_spend) ==
    LET recalc   == should_recalc(accepted_history, rule, current_day_index, last_recalc_day)
        lrd      == IF recalc THEN current_day_index ELSE last_recalc_day
        baseline == IF recalc THEN Some(recalc_baseline(accepted_history))
                              ELSE baseline_spend
        limit    == IF Len(accepted_history) < 7
                    THEN bootstrap_limit(accepted_history, rule)
                    ELSE IF rule.weekly_recalc_enabled /\ ~IsNone(baseline)
                         THEN baseline_limit(Val(baseline), rule)
                         ELSE rolling_limit(accepted_history, rule)
    IN  [daily_limit |-> limit, last_recalc_day |-> lrd, baseline_spend |-> baseline]

\* ------------------------------------------------------------------------
\* SGMEngine.calculate_active_manual_allowances
\* ------------------------------------------------------------------------

\* every allowance counted, expired or not
RECURSIVE active_total_ignoring_expiry(_, _)
active_total_ignoring_expiry(allowances, current_day) ==
    IF allowances = <<>> THEN 0
    ELSE Head(allowances).amount + active_total_ignoring_expiry(Tail(allowances), current_day)

RECURSIVE active_total(_, _)
active_total(allowances, current_day) ==
    IF allowances = <<>> THEN 0
    ELSE (IF is_expired(Head(allowances), current_day)
          THEN 0
          ELSE remaining_amount(Head(allowances), current_day))
         + active_total(Tail(allowances), current_day)

RECURSIVE expired_total(_, _)
expired_total(allowances, current_day) ==
    IF allowances = <<>> THEN 0
    ELSE (IF is_expired(Head(allowances), current_day)
          THEN Head(allowances).amount
          ELSE 0)
         + expired_total(Tail(allowances), current_day)

\* ------------------------------------------------------------------------
\* SGMEngine.simulate_day
\* ------------------------------------------------------------------------

\* the legacy amount turned into an entry whatever its sign
with_legacy_allowance_any_sign(manual_allowances, manual_allowance, day_index) ==
    IF manual_allowance # 0
    THEN manual_allowances \o <<[amount          |-> manual_allowance,
                                 created_day     |-> day_index,
                                 expiration_days |-> None]>>
    ELSE manual_allowances

\* the legacy manual_allowance parameter becomes one more entry of a new list
with_legacy_allowance(manual_allowances, manual_allowance, day_index) ==
    IF manual_allowance > 0
    THEN manual_allowances \o <<[amount          |-> manual_allowance,
                                 created_day     |-> day_index,
                                 expiration_days |-> None]>>
    ELSE manual_allowances

\* only the wallet-path amount recorded in the history
history_entry_sgm_only(day_result) == day_result.sgm_spend

\* what the drivers append to accepted_history: the total accepted spend
history_entry_of(day_result) == day_result.accepted_spend

\* the legacy entry appended to the caller's own list
caller_allowances_appended(manual_allowances, manual_allowance, day_index) ==
    IF manual_allowance > 0
    THEN manual_allowances \o <<[amount          |-> manual_allowance,
                                 created_day     |-> day_index,
                                 expiration_days |-> None]>>
    ELSE manual_allowances

\* the caller's list after the call: `manual_allowances + [legacy_allowance]`
\* builds a new list and rebinds the local name, the caller's list is as it was
caller_allowances_after(manual_allowances, manual_allowance, day_index) ==
    manual_allowances

\* a reserved configuration is in force
reserved_active(reserved_config) ==
    ~IsNone(reserved_config) /\ Val(reserved_config).monthly_volume > 0

\* the reset applied on the first simulated day too
carried_cumulative_day0(billing_day, day_index, cumulative_reserved_used) ==
    IF billing_day = 1 THEN 0 ELSE cumulative_reserved_used

\* carried cumulative usage after the billing-cycle reset
carried_cumulative(billing_day, day_index, cumulative_reserved_used) ==
    IF billing_day = 1 /\ day_index > 0 THEN 0 ELSE cumulative_reserved_used

\* the whole monthly volume available every day
reserved_available_full(monthly_volume, cumulative) == monthly_volume

reserved_available(monthly_volume, cumulative) == Max(0, monthly_volume - cumulative)

\* reserved volume used only when it covers the whole request
reserved_spend_all_or_nothing(requested_spend, available) ==
    IF requested_spend <= available THEN requested_spend ELSE 0

reserved_spend_of(requested_spend, available) == Min(requested_spend, available)

\* the carried balance taken over unclipped
wallet_start_unclipped(wallet_balance, max_wallet_capacity) == wallet_balance

\* wallet balance clipped to the capacity
wallet_start_of(wallet_balance, max_wallet_capacity) ==
    Min(wallet_balance, max_wallet_capacity)

\* the day's capacity without the day's limit added
base_sgm_capacity_no_refill(wallet_start, daily_limit, max_wallet_capacity) ==
    Min(wallet_start, max_wallet_capacity)

\* the day's capacity not held to the wallet ceiling
base_sgm_capacity_uncapped(wallet_start, daily_limit, max_wallet_capacity) ==
    wallet_start + daily_limit

\* base SGM capacity, subject to the wallet cap
base_sgm_capacity_of(wallet_start, daily_limit, max_wallet_capacity) ==
    Min(wallet_start + daily_limit, max_wallet_capacity)

sgm_spend_of(remaining_spend, wallet_available) == Min(remaining_spend, wallet_available)

\* the wallet charged for the allowance-funded part too
sgm_from_wallet_all(sgm_spend, base_sgm_capacity) == sgm_spend

sgm_from_wallet_of(sgm_spend, base_sgm_capacity) == Min(sgm_spend, base_sgm_capacity)

total_accepted_of(reserved_spend, sgm_spend) == reserved_spend + sgm_spend

\* the subtraction with its operands swapped
total_rejected_swapped(requested_spend, total_accepted) == total_accepted - requested_spend

total_rejected_of(requested_spend, total_accepted) == requested_spend - total_accepted

\* the rejection rate computed on every day
intervention_divisors_unguarded(remaining_spend, sgm_spend) == { remaining_spend }

\* what the intervention step divides by: the rejection rate is computed only
\* under `remaining_spend > 0 and sgm_spend < remaining_spend`
intervention_divisors(remaining_spend, sgm_spend) ==
    IF remaining_spend > 0 /\ sgm_spend < remaining_spend
    THEN { remaining_spend }
    ELSE {}

\* an intervention raised as soon as the reserved volume falls short
intervention_on_reserved_shortfall(remaining_spend, sgm_spend) ==
    IF remaining_spend > 0
    THEN IF (remaining_spend - sgm_spend) * 10 >= 9 * remaining_spend
         THEN "shutdown"
         ELSE "throttle"
    ELSE "none"

\* shutdown only strictly above 90%
intervention_strict(remaining_spend, sgm_spend) ==
    IF remaining_spend > 0 /\ sgm_spend < remaining_spend
    THEN IF (remaining_spend - sgm_spend) * 10 > 9 * remaining_spend
         THEN "shutdown"
         ELSE IF remaining_spend - sgm_spend > 0 THEN "throttle" ELSE "none"
    ELSE "none"

\* sgm_rejection_rate >= 0.9 and > 0, compared exactly:
\* (remaining - sgm) / remaining >= 9/10
intervention_of(remaining_spend, sgm_spend) ==
    IF remaining_spend > 0 /\ sgm_spend < remaining_spend
    THEN IF (remaining_spend - sgm_spend) * 10 >= 9 * remaining_spend
         THEN "shutdown"
         ELSE IF remaining_spend - sgm_spend > 0 THEN "throttle" ELSE "none"
    ELSE "none"

simulate_day(day_index, billing_day, requested_spend, wallet_balance, accepted_history, rule, wallet_config, reserved_config, cumulative_reserved_used, manual_allowances, last_recalc_day, baseline_spend, manual_allowance) ==
    LET allowances   == with_legacy_allowance(manual_allowances, manual_allowance, day_index)
        active       == reserved_active(reserved_config)
        carried      == IF active
                        THEN carried_cumulative(billing_day, day_index, cumulative_reserved_used)
                        ELSE cumulative_reserved_used
        available    == IF active
                        THEN reserved_available(Val(reserved_config).monthly_volume, carried)
                        ELSE 0
        reserved_spend == IF active THEN reserved_spend_of(requested_spend, available) ELSE 0
        new_cumulative_reserved == carried + reserved_spend
        remaining_spend == requested_spend - reserved_spend
        lim          == calculate_daily_spend_limit(accepted_history, rule, day_index,
                                                    last_recalc_day, baseline_spend)
        daily_limit  == lim.daily_limit
        max_wallet_capacity == calculate_max_capacity(wallet_config, daily_limit)
        wallet_start == wallet_start_of(wallet_balance, max_wallet_capacity)
        active_allowances   == active_total(allowances, day_index)
        expired_allowances  == expired_total(allowances, day_index)
        base_sgm_capacity   == base_sgm_capacity_of(wallet_start, daily_limit, max_wallet_capacity)
        wallet_available    == base_sgm_capacity + active_allowances
        sgm_spend        == sgm_spend_of(remaining_spend, wallet_available)
        sgm_from_wallet  == sgm_from_wallet_of(sgm_spend, base_sgm_capacity)
        sgm_from_manual  == sgm_spend - sgm_from_wallet
        wallet_end       == base_sgm_capacity - sgm_from_wallet
        total_accepted   == total_accepted_of(reserved_spend, sgm_spend)
        total_rejected   == total_rejected_of(requested_spend, total_accepted)
        reserved_remaining ==
            IF ~IsNone(reserved_config)
            THEN Max(0, Val(reserved_config).monthly_volume - new_cumulative_reserved)
            ELSE 0
    IN  [result |->
            [day_index                |-> day_index,
             billing_day              |-> billing_day,
             requested_spend          |-> requested_spend,
             accepted_spend           |-> total_accepted,
             rejected_spend           |-> total_rejected,
             reserved_spend           |-> reserved_spend,
             sgm_spend                |-> sgm_spend,
             daily_spend_limit        |-> daily_limit,
             wallet_balance_start     |-> wallet_start,
             wallet_balance_end       |-> wallet_end,
             wallet_max_capacity      |-> max_wallet_capacity,
             intervention_type        |-> intervention_of(remaining_spend, sgm_spend),
             reserved_remaining       |-> reserved_remaining,
             cumulative_reserved_used |-> new_cumulative_reserved,
             manual_allowances_used   |-> sgm_from_manual,
             expired_allowances       |-> expired_allowances],
         last_recalc_day |-> lim.last_recalc_day,
         baseline_spend  |-> lim.baseline_spend]

\* ------------------------------------------------------------------------
\* State: the configuration objects, the state the caller carries from day
\* to day, and the last call with what it returned
\* ------------------------------------------------------------------------

VARIABLES
    rule,                 \* SGMRule
    wallet_config,        \* WalletConfig
    reserved,             \* Optional ReservedVolumesConfig
    manual_allowances,    \* the caller's list of ManualAllowance
    day_index,            \* the next day to simulate
    billing_day,
    wallet_balance,
    accepted_history,
    cumulative_reserved,
    last_recalc_day,
    baseline_spend,       \* Optional baseline
    call,                 \* Optional: the arguments of the last call
    result,               \* Optional: the DayResult simulate_day returned
    limit,                \* Optional: what calculate_daily_spend_limit returned
    construction,         \* Optional: the last SGMRule(...) call and its outcome
    capacity,             \* Optional: the last calculate_max_capacity call and its value
    simulation_days,      \* dashboard session: the DayResults of the days simulated
    invoices,             \* dashboard session: the invoices generated
    op,                   \* dashboard session: the last operation run
    before                \* Optional: the session as it was before the last day was added

vars == <<rule, wallet_config, reserved, manual_allowances, day_index, billing_day, wallet_balance, accepted_history, cumulative_reserved, last_recalc_day, baseline_spend, call, result, limit, construction, capacity, simulation_days, invoices, op, before>>

config == <<rule, wallet_config, reserved, manual_allowances>>

objects == <<rule, wallet_config, reserved>>

dashboard == <<simulation_days, invoices, op, before>>

\* ------------------------------------------------------------------------
\* Bounds and input sets
\* ------------------------------------------------------------------------

\* days simulated by an in-order run
MaxDay == 10

\* days a dashboard session holds at most
MaxDashDay == 4

\* invoices a dashboard session holds at most
MaxInvoices == 2

\* days simulated by an in-order run without reserved volume or allowances
MaxLongDay == 15

\* largest day index of a single simulate_day call
MaxCallDay == 7

\* largest day index of a calculate_daily_spend_limit call
MaxRecalcDay == 15

SGMRule(g, m, e, d) ==
    [growth_percentage |-> g, min_growth_dollars |-> m,
     weekly_recalc_enabled |-> e, weekly_recalc_day |-> d]

WalletConfig(m, c) == [model |-> m, custom_multiplier |-> c]

ReservedVolumesConfig(v, b, n) ==
    [monthly_volume |-> v, billing_day_start |-> b, days_in_cycle |-> n]

ManualAllowance(a, c, e) == [amount |-> a, created_day |-> c, expiration_days |-> e]

WalletConfigs ==
    { WalletConfig("daily_limit_2x", None),
      WalletConfig("three_day_budget", None),
      WalletConfig("custom", Some(1)) }

\* in-order runs
RunRules == { SGMRule(20, 2000, FALSE, 0), SGMRule(50, 2000, TRUE, 0) }

RunReserved == { None, Some(ReservedVolumesConfig(9000, 2, 3)) }

RunAllowances ==
    { <<>>,
      <<ManualAllowance(500, 0, Some(5))>>,
      <<ManualAllowance(300, 0, None), ManualAllowance(500, 2, Some(3))>> }

RunRequests == { 0, 4000 }

\* in-order runs over more than two weeks
LongRules ==
    { SGMRule(20, 2000, FALSE, 0), SGMRule(20, 2000, TRUE, 0), SGMRule(20, 2000, TRUE, 3) }

LongRequests == { 0, 4000 }

\* single simulate_day calls
CallRules == { SGMRule(20, 2000, FALSE, 0), SGMRule(20, 2000, TRUE, 0) }

CallReserved == { None, Some(ReservedVolumesConfig(1000, 1, 30)) }

CallAllowances ==
    { <<>>, <<ManualAllowance(500, 0, Some(3)), ManualAllowance(200, 2, None)>> }

CallBillingDays == { 1, 2 }

CallWallets == { 0, 900 }

CallHistories ==
    { <<>>, <<300, 0, 500>>, <<1000, 1000, 1000, 1000, 1000, 1000, 1000, 400>> }

CallCumulative == { 0, 600, 1200 }

CallBaselines == { None, Some(800) }

CallRequests == { 0, 500, 1400, 2850, 30000 }

CallLegacy == { -100, 0, 400 }

\* dashboard sessions: the sidebar builds ReservedVolumesConfig(volume, start)
\* with the default cycle of 30 days
DashReserved ==
    { None, Some(ReservedVolumesConfig(9000, 1, 30)), Some(ReservedVolumesConfig(9000, 29, 30)) }

DashRequests == { 0, 4000 }

DashAllowance == { 0, 500 }

\* calculate_max_capacity calls
CapacityConfigs ==
    { WalletConfig(m, c) :
        m \in { "daily_limit_2x", "three_day_budget", "custom", "weekly_budget" },
        c \in { None, Some(0), Some(1), Some(3) } }

CapacityLimits == { 0, 1, 285, 333, 400, 1000, 1285, 4800 }

\* SGMRule construction
RuleGrowth == { 0, 4, 5, 20, 50, 51 }

RuleMinDollars == { 500, 1999, 2000, 5000 }

RuleWeekdays == { -1, 0, 3, 6, 7 }

\* calculate_daily_spend_limit calls
RecalcRules ==
    { SGMRule(20, 2000, e, d) : e \in BOOLEAN, d \in {0, 3} } \cup { SGMRule(50, 5000, FALSE, 0) }

RecalcHistories ==
    { <<>>, <<100>>, <<0, 0>>, <<300, 0, 500>>, <<100, 200, 300, 400, 500, 600>>,
      <<0, 0, 0, 0, 0, 0, 0>>,
      <<500, 500, 500, 500, 500, 500, 500>>,
      <<2000, 2000, 2000, 2000, 2000, 2000, 2000>>,
      <<1000, 1000, 1000, 1000, 1000, 1000, 1000, 400>>,
      <<900, 800, 700, 600, 500, 400, 300, 200, 100>>,
      <<4000, 0, 0, 0, 0, 0, 0, 0, 0, 0, 0, 0, 0, 0, 0>> }

\* ------------------------------------------------------------------------
\* The loop body of run_cli: one simulate_day call and the carry-over
\* ------------------------------------------------------------------------

Step(requested_spend, manual_allowance) ==
    \E r \in {simulate_day(day_index, billing_day, requested_spend, wallet_balance,
                           accepted_history, rule, wallet_config, reserved,
                           cumulative_reserved, manual_allowances,
                           last_recalc_day, baseline_spend, manual_allowance)} :
    LET next_billing_day == IF ~IsNone(reserved)
                            THEN advance_billing_day(Val(reserved), billing_day)
                            ELSE billing_day
    IN  /\ call' = Some([day_index                |-> day_index,
                         billing_day              |-> billing_day,
                         requested_spend          |-> requested_spend,
                         wallet_balance           |-> wallet_balance,
                         accepted_history         |-> accepted_history,
                         cumulative_reserved_used |-> cumulative_reserved,
                         last_recalc_day          |-> last_recalc_day,
                         baseline_spend           |-> baseline_spend,
                         manual_allowances        |-> manual_allowances,
                         manual_allowance         |-> manual_allowance])
        /\ result' = Some(r.result)
        /\ limit' = Some([daily_limit     |-> r.result.daily_spend_limit,
                          last_recalc_day |-> r.last_recalc_day,
                          baseline_spend  |-> r.baseline_spend])
        /\ last_recalc_day' = r.last_recalc_day
        /\ baseline_spend' = r.baseline_spend
        /\ wallet_balance' = r.result.wallet_balance_end
        /\ accepted_history' = Append(accepted_history, history_entry_of(r.result))
        /\ billing_day' = next_billing_day
        /\ cumulative_reserved' =
              IF ~IsNone(reserved) /\ next_billing_day = 1
              THEN 0
              ELSE r.result.cumulative_reserved_used
        /\ day_index' = day_index + 1
        /\ manual_allowances' =
              caller_allowances_after(manual_allowances, manual_allowance, day_index)
        /\ UNCHANGED <<objects, construction, capacity, dashboard>>

\* the state before the loop
Init ==
    /\ rule \in RunRules
    /\ wallet_config \in WalletConfigs
    /\ reserved \in RunReserved
    /\ manual_allowances \in RunAllowances
    /\ day_index = 0
    /\ billing_day = (IF ~IsNone(reserved) THEN Val(reserved).billing_day_start ELSE 1)
    /\ wallet_balance = 0
    /\ accepted_history = <<>>
    /\ cumulative_reserved = 0
    /\ last_recalc_day = 0
    /\ baseline_spend = None
    /\ call = None
    /\ result = None
    /\ limit = None
    /\ construction = None
    /\ capacity = None
    /\ simulation_days = <<>>
    /\ invoices = <<>>
    /\ op = "init"
    /\ before = None

RunDay ==
    /\ day_index < MaxDay
    /\ \E requested_spend \in RunRequests : Step(requested_spend, 0)

Next == RunDay

\* in-order runs: day 0, 1, 2, ... each fed the previous day's output
Spec == Init /\ [][Next]_vars

\* ------------------------------------------------------------------------
\* In-order runs with the SGM wallet alone
\* ------------------------------------------------------------------------

InitLong ==
    /\ rule \in LongRules
    /\ wallet_config = WalletConfig("daily_limit_2x", None)
    /\ reserved = None
    /\ manual_allowances = <<>>
    /\ day_index = 0
    /\ billing_day = 1
    /\ wallet_balance = 0
    /\ accepted_history = <<>>
    /\ cumulative_reserved = 0
    /\ last_recalc_day = 0
    /\ baseline_spend = None
    /\ call = None
    /\ result = None
    /\ limit = None
    /\ construction = None
    /\ capacity = None
    /\ simulation_days = <<>>
    /\ invoices = <<>>
    /\ op = "init"
    /\ before = None

RunLongDay ==
    /\ day_index < MaxLongDay
    /\ \E requested_spend \in LongRequests : Step(requested_spend, 0)

NextLong == RunLongDay

\* in-order runs without reserved volume and without manual allowances
LongSpec == InitLong /\ [][NextLong]_vars

\* ------------------------------------------------------------------------
\* One simulate_day call on arbitrary arguments
\* ------------------------------------------------------------------------

InitCall ==
    /\ rule \in CallRules
    /\ wallet_config \in WalletConfigs
    /\ reserved \in CallReserved
    /\ manual_allowances \in CallAllowances
    /\ day_index \in 0..MaxCallDay
    /\ billing_day \in CallBillingDays
    /\ wallet_balance \in CallWallets
    /\ accepted_history \in CallHistories
    /\ cumulative_reserved \in CallCumulative
    /\ last_recalc_day = 0
    /\ baseline_spend \in CallBaselines
    /\ call = None
    /\ result = None
    /\ limit = None
    /\ construction = None
    /\ capacity = None
    /\ simulation_days = <<>>
    /\ invoices = <<>>
    /\ op = "init"
    /\ before = None

Call ==
    /\ IsNone(call)
    /\ \E requested_spend \in CallRequests, manual_allowance \in CallLegacy :
          Step(requested_spend, manual_allowance)

NextCall == Call

CallSpec == InitCall /\ [][NextCall]_vars

\* ------------------------------------------------------------------------
\* Repeated calculate_daily_spend_limit calls, the returned bookkeeping
\* carried forward
\* ------------------------------------------------------------------------

InitRecalc ==
    /\ rule \in RecalcRules
    /\ wallet_config = WalletConfig("daily_limit_2x", None)
    /\ reserved = None
    /\ manual_allowances = <<>>
    /\ day_index = 0
    /\ billing_day = 1
    /\ wallet_balance = 0
    /\ accepted_history = <<>>
    /\ cumulative_reserved = 0
    /\ last_recalc_day = 0
    /\ baseline_spend = None
    /\ call = None
    /\ result = None
    /\ limit = None
    /\ construction = None
    /\ capacity = None
    /\ simulation_days = <<>>
    /\ invoices = <<>>
    /\ op = "init"
    /\ before = None

CalcLimit ==
    \E d \in 0..MaxRecalcDay, h \in RecalcHistories :
        LET r == calculate_daily_spend_limit(h, rule, d, last_recalc_day, baseline_spend)
        IN  /\ call' = Some([day_index                |-> d,
                             billing_day              |-> billing_day,
                             requested_spend          |-> 0,
                             wallet_balance           |-> wallet_balance,
                             accepted_history         |-> h,
                             cumulative_reserved_used |-> cumulative_reserved,
                             last_recalc_day          |-> last_recalc_day,
                             baseline_spend           |-> baseline_spend,
                             manual_allowances        |-> manual_allowances,
                             manual_allowance         |-> 0])
            /\ limit' = Some(r)
            /\ day_index' = d
            /\ accepted_history' = h
            /\ last_recalc_day' = r.last_recalc_day
            /\ baseline_spend' = r.baseline_spend
            /\ UNCHANGED <<config, billing_day, wallet_balance, cumulative_reserved, result, construction, capacity, dashboard>>

NextRecalc == CalcLimit

RecalcSpec == InitRecalc /\ [][NextRecalc]_vars

\* ------------------------------------------------------------------------
\* Construction of an SGMRule
\* ------------------------------------------------------------------------

\* no rule exists yet: in this specification rule is None until a
\* construction succeeds, and Some(rule) afterwards
InitRule ==
    /\ rule = None
    /\ wallet_config = WalletConfig("daily_limit_2x", None)
    /\ reserved = None
    /\ manual_allowances = <<>>
    /\ day_index = 0
    /\ billing_day = 1
    /\ wallet_balance = 0
    /\ accepted_history = <<>>
    /\ cumulative_reserved = 0
    /\ last_recalc_day = 0
    /\ baseline_spend = None
    /\ call = None
    /\ result = None
    /\ limit = None
    /\ construction = None
    /\ capacity = None
    /\ simulation_days = <<>>
    /\ invoices = <<>>
    /\ op = "init"
    /\ before = None

\* SGMRule(name, g, m, True, e, d, v): the dataclass stores the fields and
\* runs __post_init__; when that raises, no rule comes into being
Construct ==
    /\ IsNone(construction)
    /\ \E g \in RuleGrowth, m \in RuleMinDollars, e \in BOOLEAN,
          d \in RuleWeekdays, v \in BOOLEAN :
          LET outcome == post_init(g, m, d, v)
          IN  /\ construction' = Some([growth_percentage     |-> g,
                                       min_growth_dollars    |-> m,
                                       weekly_recalc_enabled |-> e,
                                       weekly_recalc_day     |-> d,
                                       validate_bounds       |-> v,
                                       outcome               |-> outcome])
              /\ rule' = IF outcome = "ok" THEN Some(SGMRule(g, m, e, d)) ELSE rule
    /\ UNCHANGED <<wallet_config, reserved, manual_allowances, day_index, billing_day, wallet_balance, accepted_history, cumulative_reserved, last_recalc_day, baseline_spend, call, result, limit, capacity, dashboard>>

NextRule == Construct

RuleSpec == InitRule /\ [][NextRule]_vars

\* ------------------------------------------------------------------------
\* The dashboard session: simulate_next_day, undo_last_day, Reset
\* ------------------------------------------------------------------------

RECURSIVE sgm_spend_between(_, _, _)
\* the sgm_spend of the days first..last-1 (day 0 is entry 1)
sgm_spend_between(days, first, last) ==
    IF first >= last \/ first >= Len(days) THEN 0
    ELSE days[first + 1].sgm_spend + sgm_spend_between(days, first + 1, last)

\* the invoice generate_invoice_for_completed_cycle appends
generate_invoice_for_completed_cycle(current_day_index) ==
    LET cycle_length    == Val(reserved).days_in_cycle
        cycle_start_day == Max(0, current_day_index - cycle_length)
        accumulated_sgm == sgm_spend_between(simulation_days, cycle_start_day, current_day_index)
    IN  [billing_cycle    |-> Len(invoices) + 1,
         cycle_start_day  |-> cycle_start_day,
         cycle_end_day    |-> current_day_index - 1,
         prepaid_reserved |-> Val(reserved).monthly_volume,
         accumulated_sgm  |-> accumulated_sgm,
         total_amount     |-> Val(reserved).monthly_volume + accumulated_sgm,
         generated_on_day |-> current_day_index]

\* the part of the session that undo_last_day restores
session ==
    [simulation_days     |-> simulation_days,
     accepted_history    |-> accepted_history,
     wallet_balance      |-> wallet_balance,
     billing_day         |-> billing_day,
     cumulative_reserved |-> cumulative_reserved]

\* a session as first initialised
InitDash ==
    /\ rule = SGMRule(20, 2000, FALSE, 0)
    /\ wallet_config = WalletConfig("daily_limit_2x", None)
    /\ reserved \in DashReserved
    /\ manual_allowances = <<>>
    /\ day_index = 0
    /\ billing_day = 1
    /\ wallet_balance = 0
    /\ accepted_history = <<>>
    /\ cumulative_reserved = 0
    /\ last_recalc_day = 0
    /\ baseline_spend = None
    /\ call = None
    /\ result = None
    /\ limit = None
    /\ construction = None
    /\ capacity = None
    /\ simulation_days = <<>>
    /\ invoices = <<>>
    /\ op = "init"
    /\ before = None

simulate_next_day ==
    /\ Len(simulation_days) < MaxDashDay
    /\ Len(invoices) < MaxInvoices
    /\ \E daily_spend \in DashRequests, manual_allowance \in DashAllowance :
        LET d        == Len(simulation_days)
            advanced == IF ~IsNone(reserved) /\ d > 0
                        THEN advance_billing_day(Val(reserved), billing_day)
                        ELSE billing_day
            wrapped  == ~IsNone(reserved) /\ d > 0 /\ advanced = 1
            carried  == IF wrapped THEN 0 ELSE cumulative_reserved
            allowances == IF manual_allowance > 0
                          THEN <<ManualAllowance(manual_allowance, d, Some(1))>>
                          ELSE <<>>
        IN  \E r \in {simulate_day(d, advanced, daily_spend, wallet_balance, accepted_history, rule, wallet_config, reserved, carried, allowances, last_recalc_day, baseline_spend, 0)} :
            /\ invoices' = IF wrapped
                           THEN Append(invoices, generate_invoice_for_completed_cycle(d))
                           ELSE invoices
            /\ call' = Some([day_index                |-> d,
                             billing_day              |-> advanced,
                             requested_spend          |-> daily_spend,
                             wallet_balance           |-> wallet_balance,
                             accepted_history         |-> accepted_history,
                             cumulative_reserved_used |-> carried,
                             last_recalc_day          |-> last_recalc_day,
                             baseline_spend           |-> baseline_spend,
                             manual_allowances        |-> allowances,
                             manual_allowance         |-> 0])
            /\ result' = Some(r.result)
            /\ limit' = Some([daily_limit     |-> r.result.daily_spend_limit,
                              last_recalc_day |-> r.last_recalc_day,
                              baseline_spend  |-> r.baseline_spend])
            /\ last_recalc_day' = r.last_recalc_day
            /\ baseline_spend' = r.baseline_spend
            /\ simulation_days' = Append(simulation_days, r.result)
            /\ wallet_balance' = r.result.wallet_balance_end
            /\ accepted_history' = Append(accepted_history, history_entry_of(r.result))
            /\ cumulative_reserved' = r.result.cumulative_reserved_used
            /\ billing_day' = advanced
            /\ day_index' = d + 1
            /\ before' = Some(session)
            /\ op' = "simulate_next_day"
            /\ UNCHANGED <<config, construction, capacity>>

undo_last_day ==
    /\ simulation_days # <<>>
    /\ LET should_remove_invoice ==
               /\ invoices # <<>>
               /\ invoices[Len(invoices)].generated_on_day = Len(simulation_days)
           remaining == SubSeq(simulation_days, 1, Len(simulation_days) - 1)
       IN  /\ simulation_days' = remaining
           /\ accepted_history' = SubSeq(accepted_history, 1, Len(accepted_history) - 1)
           /\ invoices' = IF should_remove_invoice
                          THEN SubSeq(invoices, 1, Len(invoices) - 1)
                          ELSE invoices
           /\ IF remaining # <<>>
              THEN LET last_day == remaining[Len(remaining)]
                   IN  /\ wallet_balance' = last_day.wallet_balance_end
                       /\ billing_day' = last_day.billing_day
                       /\ cumulative_reserved' = last_day.cumulative_reserved_used
              ELSE /\ wallet_balance' = 0
                   /\ billing_day' = (IF ~IsNone(reserved)
                                      THEN Val(reserved).billing_day_start
                                      ELSE 1)
                   /\ cumulative_reserved' = 0
           /\ day_index' = Len(remaining)
    /\ before' = (IF op = "simulate_next_day" THEN before ELSE None)
    /\ op' = "undo_last_day"
    /\ UNCHANGED <<config, last_recalc_day, baseline_spend, call, result, limit, construction, capacity>>

\* the Reset button
sim_reset ==
    /\ simulation_days # <<>>
    /\ simulation_days' = <<>>
    /\ wallet_balance' = 0
    /\ accepted_history' = <<>>
    /\ billing_day' = (IF ~IsNone(reserved) THEN Val(reserved).billing_day_start ELSE 1)
    /\ cumulative_reserved' = 0
    /\ invoices' = <<>>
    /\ day_index' = 0
    /\ before' = None
    /\ op' = "sim_reset"
    /\ UNCHANGED <<config, last_recalc_day, baseline_spend, call, result, limit, construction, capacity>>

NextDash == simulate_next_day \/ undo_last_day \/ sim_reset

DashSpec == InitDash /\ [][NextDash]_vars

\* ------------------------------------------------------------------------
\* WalletConfig.calculate_max_capacity on arbitrary configurations
\* ------------------------------------------------------------------------

InitCapacity ==
    /\ rule = SGMRule(20, 2000, FALSE, 0)
    /\ wallet_config \in CapacityConfigs
    /\ reserved = None
    /\ manual_allowances = <<>>
    /\ day_index = 0
    /\ billing_day = 1
    /\ wallet_balance = 0
    /\ accepted_history = <<>>
    /\ cumulative_reserved = 0
    /\ last_recalc_day = 0
    /\ baseline_spend = None
    /\ call = None
    /\ result = None
    /\ limit = None
    /\ construction = None
    /\ capacity = None
    /\ simulation_days = <<>>
    /\ invoices = <<>>
    /\ op = "init"
    /\ before = None

CalcCapacity ==
    /\ IsNone(capacity)
    /\ \E daily_limit \in CapacityLimits :
          capacity' = Some([daily_limit  |-> daily_limit,
                            max_capacity |-> calculate_max_capacity(wallet_config, daily_limit)])
    /\ UNCHANGED <<config, day_index, billing_day, wallet_balance, accepted_history, cumulative_reserved, last_recalc_day, baseline_spend, call, result, limit, construction, dashboard>>

NextCapacity == CalcCapacity

CapacitySpec == InitCapacity /\ [][NextCapacity]_vars

\* ------------------------------------------------------------------------
\* Properties
\* ------------------------------------------------------------------------

Called == ~IsNone(result)

R == Val(result)

Cl == Val(call)

\* the allowance list simulate_day worked on in the last call
PassedAllowances ==
    with_legacy_allowance(manual_allowances, Cl.manual_allowance, Cl.day_index)

\* C1: in an in-order run every DayResult has
\* 0 <= wallet_balance_start <= wallet_max_capacity and
\* 0 <= wallet_balance_end <= wallet_max_capacity.
C1_WalletWithinCapacity ==
    Called =>
        /\ 0 <= R.wallet_balance_start
        /\ R.wallet_balance_start <= R.wallet_max_capacity
        /\ 0 <= R.wallet_balance_end
        /\ R.wallet_balance_end <= R.wallet_max_capacity

\* a carried balance above the day's capacity was clipped, and an allowance
\* was spent on top of the drained wallet
C1_Witness ==
    /\ Called
    /\ Cl.wallet_balance > R.wallet_max_capacity
    /\ R.wallet_balance_start = R.wallet_max_capacity
    /\ R.manual_allowances_used > 0

\* C2: in an in-order run with a reserved configuration the returned
\* cumulative_reserved_used never exceeds monthly_volume, whatever the number
\* of billing-cycle wraps.
C2_CumulativeWithinVolume ==
    (Called /\ ~IsNone(reserved)) =>
        R.cumulative_reserved_used <= Val(reserved).monthly_volume

\* after at least two wraps the volume is used up and the wallet pays the rest
C2_Witness ==
    /\ Called
    /\ ~IsNone(reserved)
    /\ Cl.day_index >= 2 * Val(reserved).days_in_cycle
    /\ R.cumulative_reserved_used = Val(reserved).monthly_volume
    /\ R.reserved_spend > 0
    /\ R.sgm_spend > 0

\* C3: accepted_spend + rejected_spend = requested_spend for every DayResult.
C3_AcceptedPlusRejected ==
    Called => R.accepted_spend + R.rejected_spend = R.requested_spend

\* a request partly accepted from all three sources and partly rejected
C3_Witness ==
    /\ Called
    /\ R.reserved_spend > 0
    /\ R.manual_allowances_used > 0
    /\ R.rejected_spend > 0

\* C4: reserved_spend + sgm_spend + manual_allowances_used = accepted_spend
\* for every DayResult.
C4_ThreeSourcesAddUp ==
    Called =>
        R.reserved_spend + R.sgm_spend + R.manual_allowances_used = R.accepted_spend

\* the reserved amount available at the start of the day of the last call
AvailableAtStart ==
    IF IsNone(reserved) \/ Val(reserved).monthly_volume <= 0
    THEN 0
    ELSE LET used == IF Cl.billing_day = 1 /\ Cl.day_index > 0
                     THEN 0
                     ELSE Cl.cumulative_reserved_used
         IN  IF Val(reserved).monthly_volume > used
             THEN Val(reserved).monthly_volume - used
             ELSE 0

\* C5: strict priority of the funding sources: sgm_spend > 0 only if the
\* reserved amount available at the start of the day is used up, and
\* manual_allowances_used > 0 only if the wallet ends the day at 0.
C5_StrictPriority ==
    Called =>
        /\ R.sgm_spend > 0 => R.reserved_spend = AvailableAtStart
        /\ R.manual_allowances_used > 0 => R.wallet_balance_end = 0

\* all three sources drawn on one day
C5_Witness ==
    /\ Called
    /\ AvailableAtStart > 0
    /\ R.reserved_spend = AvailableAtStart
    /\ R.sgm_spend > R.manual_allowances_used
    /\ R.manual_allowances_used > 0
    /\ R.wallet_balance_end = 0

\* C6: with monthly_volume > 0, a call with billing_day = 1 and day_index > 0
\* discards the carried usage (reserved_spend = min(requested, monthly_volume),
\* returned cumulative = reserved_spend); any other call keeps it (returned
\* cumulative = carried + reserved_spend).
C6_BillingCycleReset ==
    (Called /\ ~IsNone(reserved) /\ Val(reserved).monthly_volume > 0) =>
        IF Cl.billing_day = 1 /\ Cl.day_index > 0
        THEN /\ R.reserved_spend =
                    (IF R.requested_spend <= Val(reserved).monthly_volume
                     THEN R.requested_spend
                     ELSE Val(reserved).monthly_volume)
             /\ R.cumulative_reserved_used = R.reserved_spend
        ELSE R.cumulative_reserved_used =
                    Cl.cumulative_reserved_used + R.reserved_spend

\* a wrap that discards usage carried in
C6_Witness ==
    /\ Called
    /\ ~IsNone(reserved)
    /\ Cl.billing_day = 1
    /\ Cl.day_index > 0
    /\ Cl.cumulative_reserved_used > 0
    /\ R.reserved_spend > 0
    /\ R.cumulative_reserved_used = R.reserved_spend

\* C7: with the bookkeeping carried forward, a recalculation (last_recalc_day
\* changes) comes at least 7 days after the previous one, and a call on a day
\* fewer than 7 after the last recalculation leaves last_recalc_day and
\* baseline_spend unchanged.
C7_RecalcAtMostWeekly ==
    [][ /\ last_recalc_day' # last_recalc_day
            => last_recalc_day' - last_recalc_day >= 7
        /\ (day_index' >= last_recalc_day /\ day_index' - last_recalc_day < 7)
            => (last_recalc_day' = last_recalc_day /\ baseline_spend' = baseline_spend)
      ]_vars

\* a second recalculation, a week after the first
C7_Witness ==
    /\ ~IsNone(call)
    /\ rule.weekly_recalc_enabled
    /\ ~IsNone(Cl.baseline_spend)
    /\ Cl.last_recalc_day = 7
    /\ last_recalc_day = 14

\* the amounts of the allowances of a list that are (not) expired on day D,
\* by the rule D >= created_day + offset
RECURSIVE AmountWhere(_, _, _)
AmountWhere(allowances, D, expired) ==
    IF allowances = <<>> THEN 0
    ELSE LET a  == Head(allowances)
             ex == /\ a.expiration_days # None
                   /\ D >= a.created_day + a.expiration_days[1]
         IN  (IF ex = expired THEN a.amount ELSE 0)
             + AmountWhere(Tail(allowances), D, expired)

\* C8: an allowance created on day C with offset E counts in full towards the
\* active total on every day D < C + E, whatever was spent of it before, and
\* towards the expired total (and not the active one) on every day D >= C + E;
\* an allowance without offset is always active.
C8_AllowanceExpiration ==
    Called =>
        /\ active_total(manual_allowances, Cl.day_index)
              = AmountWhere(manual_allowances, Cl.day_index, FALSE)
        /\ expired_total(manual_allowances, Cl.day_index)
              = AmountWhere(manual_allowances, Cl.day_index, TRUE)
        /\ R.expired_allowances = AmountWhere(manual_allowances, Cl.day_index, TRUE)
        /\ R.manual_allowances_used <= AmountWhere(manual_allowances, Cl.day_index, FALSE)

\* the first day an allowance counts as expired, after a day on which the
\* request was throttled although the allowance was spent
C8_Witness ==
    /\ Called
    /\ Len(manual_allowances) = 1
    /\ Cl.day_index = manual_allowances[1].created_day + manual_allowances[1].expiration_days[1]
    /\ R.expired_allowances = manual_allowances[1].amount
    /\ R.rejected_spend > 0
    /\ Cl.accepted_history[Cl.day_index] > manual_allowances[1].amount
    /\ Cl.accepted_history[Cl.day_index] < 4000

\* C9: two simulate_day calls that differ only in the manual allowances (list
\* and legacy amount) return the same wallet_balance_start and
\* wallet_balance_end.
C9_AllowancesNeverFeedWallet ==
    Called =>
        \A other \in CallAllowances, legacy \in CallLegacy :
            LET o == simulate_day(Cl.day_index, Cl.billing_day, Cl.requested_spend,
                                  Cl.wallet_balance, Cl.accepted_history, rule,
                                  wallet_config, reserved, Cl.cumulative_reserved_used,
                                  other, Cl.last_recalc_day, Cl.baseline_spend, legacy).result
            IN  /\ o.wallet_balance_start = R.wallet_balance_start
                /\ o.wallet_balance_end = R.wallet_balance_end

\* a call that spends an allowance, and the same call without any does not
C9_Witness ==
    /\ Called
    /\ R.manual_allowances_used > 0
    /\ simulate_day(Cl.day_index, Cl.billing_day, Cl.requested_spend,
                    Cl.wallet_balance, Cl.accepted_history, rule,
                    wallet_config, reserved, Cl.cumulative_reserved_used,
                    <<>>, Cl.last_recalc_day, Cl.baseline_spend, 0).result.accepted_spend
          < R.accepted_spend

\* the non-reserved part of the last request and what of it was rejected
Remainder == R.requested_spend - R.reserved_spend

NonReservedRejected == Remainder - R.sgm_spend

\* C10: with remainder = requested - reserved_spend > 0 and
\* rate = (remainder - sgm_spend) / remainder, the intervention is "shutdown"
\* iff rate >= 0.90, "throttle" iff 0 < rate < 0.90, "none" iff rate = 0; with
\* remainder = 0 it is "none".
C10_InterventionClassification ==
    Called =>
        IF Remainder > 0
        THEN /\ R.intervention_type = "shutdown"
                    <=> 10 * NonReservedRejected >= 9 * Remainder
             /\ R.intervention_type = "throttle"
                    <=> (NonReservedRejected > 0 /\ 10 * NonReservedRejected < 9 * Remainder)
             /\ R.intervention_type = "none" <=> NonReservedRejected = 0
        ELSE R.intervention_type = "none"

\* a rejection rate of exactly 0.90
C10_Witness ==
    /\ Called
    /\ Remainder > 0
    /\ 10 * NonReservedRejected = 9 * Remainder
    /\ R.intervention_type = "shutdown"


\* the SGMRule(...) call that was made
Co == Val(construction)

Constructed == ~IsNone(construction)

growth_out_of_bounds == Co.growth_percentage < 5 \/ Co.growth_percentage > 50

min_below_bound == Co.min_growth_dollars < 2000

weekday_out_of_range == Co.weekly_recalc_day < 0 \/ Co.weekly_recalc_day > 6

\* C11: with validation on, constructing an SGMRule raises a validation error
\* exactly when the growth percentage is outside [5, 50], or the minimum
\* growth is below $20, or the recalculation weekday is outside 0..6; the
\* boundary values 5, 50, $20, 0 and 6 are accepted.
C11_ValidationBounds ==
    (Constructed /\ Co.validate_bounds) =>
        /\ (Co.outcome = "ValueError") <=>
               (growth_out_of_bounds \/ min_below_bound \/ weekday_out_of_range)
        /\ (Co.outcome = "ok") <=> ~IsNone(rule)
        /\ ( /\ Co.growth_percentage \in {5, 50}
             /\ Co.min_growth_dollars = 2000
             /\ Co.weekly_recalc_day \in {0, 6} ) => Co.outcome = "ok"

C11_Witness ==
    /\ Constructed
    /\ Co.validate_bounds
    /\ Co.growth_percentage = 50
    /\ Co.min_growth_dollars = 2000
    /\ Co.weekly_recalc_day = 6
    /\ Co.outcome = "ok"
    /\ ~IsNone(rule)

\* C12 as stated: with validate_bounds = False the constructor rejects
\* nothing, whatever the growth, the minimum and the weekday are.
C12_BypassRejectsNothing ==
    (Constructed /\ ~Co.validate_bounds) => Co.outcome = "ok"

\* C12 amended: with validate_bounds = False neither a growth percentage
\* outside [5, 50] nor a minimum below $20 is rejected, but a recalculation
\* weekday outside 0..6 still is: the constructor raises exactly then.
C12_BypassKeepsWeekdayCheck ==
    (Constructed /\ ~Co.validate_bounds) =>
        ((Co.outcome = "ValueError") <=> weekday_out_of_range)

C12_Witness ==
    /\ Constructed
    /\ ~Co.validate_bounds
    /\ growth_out_of_bounds
    /\ min_below_bound
    /\ weekday_out_of_range
    /\ Co.outcome = "ValueError"
    /\ IsNone(rule)

\* the last call made again, on the objects the caller holds after it
Replay ==
    simulate_day(Cl.day_index, Cl.billing_day, Cl.requested_spend, Cl.wallet_balance, Cl.accepted_history, rule, wallet_config, reserved, Cl.cumulative_reserved_used, manual_allowances, Cl.last_recalc_day, Cl.baseline_spend, Cl.manual_allowance)

WithList(allowances) ==
    simulate_day(Cl.day_index, Cl.billing_day, Cl.requested_spend, Cl.wallet_balance, Cl.accepted_history, rule, wallet_config, reserved, Cl.cumulative_reserved_used, allowances, Cl.last_recalc_day, Cl.baseline_spend, 0)

\* the entry the legacy amount stands for
LegacyEntry == ManualAllowance(Cl.manual_allowance, Cl.day_index, None)

\* C14: a call with the legacy manual_allowance = A > 0 returns the same
\* DayResult and bookkeeping as the call with manual_allowance = 0 and the
\* list extended by one entry (amount A, created on day_index, never
\* expiring); a legacy amount <= 0 has no effect.
C14_LegacyAllowance ==
    Called =>
        LET same == IF Cl.manual_allowance > 0
                    THEN WithList(Cl.manual_allowances \o <<LegacyEntry>>)
                    ELSE WithList(Cl.manual_allowances)
        IN  /\ R = same.result
            /\ last_recalc_day = same.last_recalc_day
            /\ baseline_spend = same.baseline_spend

C14_Witness ==
    /\ Called
    /\ Cl.manual_allowance > 0
    /\ Cl.manual_allowances # <<>>
    /\ R.manual_allowances_used > active_total(Cl.manual_allowances, Cl.day_index)
    /\ R = WithList(Cl.manual_allowances \o <<LegacyEntry>>).result

C14_WitnessNegative ==
    /\ Called
    /\ Cl.manual_allowance < 0
    /\ R.manual_allowances_used > 0
    /\ R = WithList(Cl.manual_allowances).result

\* the accepted spend of days first..last of the run (day 0 is entry 1)
AcceptedOver(first, last) == SumSeq(SubSeq(accepted_history, first + 1, last + 1))

\* the last simulated day of an in-order run
LastDay == Len(accepted_history) - 1

\* C15: in an in-order run without reserved volume or manual allowances, for
\* every day d >= 14 the accepted spend of days d-6..d is at most
\* max(T * (1 + g/100), T + min_growth_dollars), where T is the accepted
\* spend of days d-13..d-7.
C15_WeeklyGrowthBound ==
    (Called /\ LastDay >= 14) =>
        LET T == AcceptedOver(LastDay - 13, LastDay - 7)
        IN  AcceptedOver(LastDay - 6, LastDay) <=
                Max((T * (100 + rule.growth_percentage)) \div 100,
                    T + rule.min_growth_dollars)

Limited == ~IsNone(limit)

\* what the last calculate_daily_spend_limit call returned
L == Val(limit)

\* the regime the last limit was computed in
Bootstrap == Len(Cl.accepted_history) < 7

BaselineRegime ==
    ~Bootstrap /\ rule.weekly_recalc_enabled /\ ~IsNone(L.baseline_spend)

RollingRegime == ~Bootstrap /\ ~BaselineRegime

RecalcTriggered ==
    /\ rule.weekly_recalc_enabled
    /\ Len(Cl.accepted_history) >= 7
    /\ Cl.day_index - Cl.last_recalc_day >= 7
    /\ Cl.day_index % 7 = rule.weekly_recalc_day

\* the mean of the seven most recent entries of the history passed
RecentMean ==
    LET h == Cl.accepted_history
        n == Len(h)
    IN  (h[n-6] + h[n-5] + h[n-4] + h[n-3] + h[n-2] + h[n-1] + h[n]) \div 7

BaselineFormula(baseline) ==
    LET grown == (baseline * 7 * (100 + rule.growth_percentage)) \div 100
    IN  (IF grown > rule.min_growth_dollars THEN grown ELSE rule.min_growth_dollars) \div 7

\* with weekly recalculation on and 7 or more entries, the limit follows the
\* baseline that exists after the trigger check, the rolling formula none
C18_LimitFromBaseline ==
    (Limited /\ rule.weekly_recalc_enabled /\ ~Bootstrap) =>
        IF ~IsNone(L.baseline_spend)
        THEN L.daily_limit = BaselineFormula(Val(L.baseline_spend))
        ELSE L.daily_limit = rolling_limit(Cl.accepted_history, rule)

Largest(S) == CHOOSE x \in S : \A y \in S : y <= x

C19_WitnessGrowth ==
    /\ Limited
    /\ Bootstrap
    /\ Len(Cl.accepted_history) = 6
    /\ L.daily_limit > rule.min_growth_dollars \div 7
    /\ L.daily_limit > (rule.min_growth_dollars - SumSeq(Cl.accepted_history))

\* the window sums of the rolling formula, on the history passed
R7 == SumSeq(SubSeq(Cl.accepted_history, Len(Cl.accepted_history) - 6, Len(Cl.accepted_history)))

R6 == SumSeq(SubSeq(Cl.accepted_history, Len(Cl.accepted_history) - 5, Len(Cl.accepted_history)))

\* gf is the seventh root of 1 + g/100, to the precision of the fixed point
IsSeventhRoot(gf, g) ==
    /\ Pow7(gf) <= GF_DEN + (GF_DEN * g) \div 100
    /\ Pow7(gf + 1) > GF_DEN + (GF_DEN * g) \div 100

\* C20: in the rolling steady state (7 or more entries, no baseline in use)
\* the limit is max(R7 * gf - R6, R7 + min_growth_dollars/7 - R6, 0) with
\* gf = (1 + g/100) ** (1/7), R7 and R6 the sums of the 7 and 6 most recent
\* entries; an all-zero recent window gives exactly min_growth_dollars / 7.
C20_RollingLimit ==
    (Limited /\ RollingRegime) =>
        /\ IsSeventhRoot(growth_factor(rule), rule.growth_percentage)
        /\ L.daily_limit =
              Largest({ (R7 * growth_factor(rule)) \div GF_DEN - R6,
                        R7 + rule.min_growth_dollars \div 7 - R6,
                        0 })
        /\ R7 = 0 => L.daily_limit = rule.min_growth_dollars \div 7

\* a rolling day on which the exponential term sets the limit
C20_Witness ==
    /\ Limited
    /\ RollingRegime
    /\ L.daily_limit = (R7 * growth_factor(rule)) \div GF_DEN - R6
    /\ L.daily_limit > R7 + rule.min_growth_dollars \div 7 - R6

C20_WitnessZero ==
    /\ Limited
    /\ RollingRegime
    /\ R7 = 0
    /\ L.daily_limit = rule.min_growth_dollars \div 7

\* the smaller of two amounts, written out
Least(a, b) == IF a <= b THEN a ELSE b

C21_WitnessWithinCapacity ==
    /\ Called
    /\ Cl.wallet_balance > 0
    /\ Cl.wallet_balance < R.wallet_max_capacity
    /\ R.wallet_balance_start = Cl.wallet_balance
    /\ R.sgm_spend > 0
    /\ R.wallet_balance_end > 0

ActiveAllowanceTotal == AmountWhere(PassedAllowances, Cl.day_index, FALSE)

Cap == Val(capacity)

\* C24 as stated: a daily limit L maps to 2*L for daily_limit_2x, 3*L for
\* three_day_budget, m*L for custom with a supplied multiplier m, and 2*L for
\* an unrecognized model or a custom model without a multiplier.
C24_CapacityModels ==
    ~IsNone(capacity) =>
        Cap.max_capacity =
            (IF wallet_config.model = "daily_limit_2x" THEN 2 * Cap.daily_limit
             ELSE IF wallet_config.model = "three_day_budget" THEN 3 * Cap.daily_limit
             ELSE IF wallet_config.model = "custom" /\ wallet_config.custom_multiplier # None
                  THEN wallet_config.custom_multiplier[1] * Cap.daily_limit
             ELSE 2 * Cap.daily_limit)

\* C24 amended: as stated, except that a custom model whose multiplier is 0
\* is treated like one without a multiplier and maps L to 2*L; only a
\* non-zero multiplier m gives m*L.
C24_CapacityModelsNonZero ==
    ~IsNone(capacity) =>
        Cap.max_capacity =
            (IF wallet_config.model = "daily_limit_2x" THEN 2 * Cap.daily_limit
             ELSE IF wallet_config.model = "three_day_budget" THEN 3 * Cap.daily_limit
             ELSE IF /\ wallet_config.model = "custom"
                     /\ wallet_config.custom_multiplier # None
                     /\ wallet_config.custom_multiplier[1] # 0
                  THEN wallet_config.custom_multiplier[1] * Cap.daily_limit
             ELSE 2 * Cap.daily_limit)

\* a custom model with multiplier 0 and a positive daily limit
C24_Witness ==
    /\ ~IsNone(capacity)
    /\ wallet_config.model = "custom"
    /\ wallet_config.custom_multiplier = Some(0)
    /\ Cap.daily_limit > 0
    /\ Cap.max_capacity = 2 * Cap.daily_limit

C24_WitnessCustom ==
    /\ ~IsNone(capacity)
    /\ wallet_config.model = "custom"
    /\ wallet_config.custom_multiplier = Some(3)
    /\ Cap.daily_limit > 0
    /\ Cap.max_capacity = 3 * Cap.daily_limit

\* the numbers the last call divided by
Divisors ==
    limit_divisors(Cl.accepted_history)
        \cup intervention_divisors(R.requested_spend - R.reserved_spend, R.sgm_spend)

\* C25: simulate_day and calculate_daily_spend_limit complete without raising
\* (no division by zero) for every non-negative request, 0 included, every
\* history length, empty and all-zero histories included, and exhausted
\* reserves; on a zero-request day reserved_spend, sgm_spend, accepted_spend
\* and rejected_spend are all 0, intervention_type is "none" and the
\* cumulative reserved usage is not increased.
C25_NoNumericFailure ==
    Called =>
        /\ 0 \notin Divisors
        /\ Cl.requested_spend = 0 =>
              /\ R.reserved_spend = 0
              /\ R.sgm_spend = 0
              /\ R.accepted_spend = 0
              /\ R.rejected_spend = 0
              /\ R.intervention_type = "none"
              /\ R.cumulative_reserved_used <= Cl.cumulative_reserved_used

\* a day on which the reserve runs out and part of the request is rejected
C25_WitnessExhausted ==
    /\ Called
    /\ ~IsNone(reserved)
    /\ R.reserved_spend > 0
    /\ R.reserved_remaining = 0
    /\ R.rejected_spend > 0

\* a zero-request day after a week without any usage
C25_Witness ==
    /\ Called
    /\ Cl.requested_spend = 0
    /\ Len(Cl.accepted_history) >= 7
    /\ SumSeq(Cl.accepted_history) = 0
    /\ R.daily_spend_limit > 0

\* a bootstrap day that rejects part of the request
C25_WitnessDivisions ==
    /\ Called
    /\ Cardinality(Divisors) = 3

\* the 7 most recent entries of the history passed to the last call
Recent7 ==
    SubSeq(Cl.accepted_history, Len(Cl.accepted_history) - 6, Len(Cl.accepted_history))

\* C27: with at least 7 entries, calculate_daily_spend_limit returns the same
\* limit, last_recalc_day and baseline when the history is replaced by its 7
\* most recent entries: older entries never influence the result.
C27_OnlyRecentSeven ==
    (Limited /\ Len(Cl.accepted_history) >= 7) =>
        calculate_daily_spend_limit(Recent7, rule, Cl.day_index, Cl.last_recalc_day, Cl.baseline_spend) = L

\* a long history whose older entries differ from the recent ones, in the
\* rolling regime
C27_Witness ==
    /\ Limited
    /\ Len(Cl.accepted_history) > 7
    /\ RollingRegime
    /\ SumSeq(Cl.accepted_history) > SumSeq(Recent7)
    /\ L.daily_limit = rolling_limit(Recent7, rule)

\* C28: for every DayResult with a non-negative request, rejected_spend >= 0
\* and accepted_spend <= requested_spend, and intervention_type differs from
\* "none" exactly when rejected_spend > 0: every rejection is a non-reserved
\* rejection, and a reserved shortfall alone never produces an intervention.
C28_RejectionAndIntervention ==
    (Called /\ Cl.requested_spend >= 0) =>
        /\ R.rejected_spend >= 0
        /\ R.accepted_spend <= R.requested_spend
        /\ (R.intervention_type # "none") <=> (R.rejected_spend > 0)
        /\ R.rejected_spend = (R.requested_spend - R.reserved_spend) - R.sgm_spend

\* the reserved volume falls short of the request and the wallet covers the rest
C28_Witness ==
    /\ Called
    /\ ~IsNone(reserved)
    /\ R.reserved_spend > 0
    /\ R.reserved_spend < R.requested_spend
    /\ R.reserved_remaining = 0
    /\ R.sgm_spend = R.requested_spend - R.reserved_spend
    /\ R.rejected_spend = 0
    /\ R.intervention_type = "none"

C28_WitnessRejected ==
    /\ Called
    /\ R.reserved_spend > 0
    /\ R.rejected_spend > 0
    /\ R.intervention_type = "throttle"

\* C26: in the driver loops, before day d is simulated the carried
\* accepted_history has exactly d entries, entry i is day i's total
\* accepted_spend (reserved + wallet + manual, not only sgm_spend), and the
\* carried wallet balance is day d-1's wallet_balance_end (0 for d = 0).
C26_CarriedHistoryAndWallet ==
    /\ Len(accepted_history) = Len(simulation_days)
    /\ \A i \in 1..Len(simulation_days) :
          /\ accepted_history[i] = simulation_days[i].accepted_spend
          /\ simulation_days[i].day_index = i - 1
    /\ wallet_balance = (IF simulation_days = <<>>
                         THEN 0
                         ELSE simulation_days[Len(simulation_days)].wallet_balance_end)
    /\ op = "simulate_next_day" =>
          /\ Len(Cl.accepted_history) = Cl.day_index
          /\ Cl.accepted_history = SubSeq(accepted_history, 1, Cl.day_index)
          /\ Cl.wallet_balance = (IF Cl.day_index = 0
                                  THEN 0
                                  ELSE simulation_days[Cl.day_index].wallet_balance_end)

\* a day added to a session one of whose days drew on the reserve and on the
\* wallet at once
C26_Witness ==
    /\ op = "simulate_next_day"
    /\ Cl.day_index >= 1
    /\ \E i \in 1..Cl.day_index :
          /\ simulation_days[i].reserved_spend > 0
          /\ simulation_days[i].sgm_spend > 0
          /\ Cl.accepted_history[i]
                = simulation_days[i].reserved_spend + simulation_days[i].sgm_spend
    /\ Cl.wallet_balance = simulation_days[Cl.day_index].wallet_balance_end

\* C29: undo is the inverse of adding a day: simulate_next_day followed by
\* undo_last_day leaves simulation_days, accepted_history, wallet_balance,
\* billing_day and cumulative_reserved as they were before the day was added.
C29_UndoInvertsAdd ==
    (op = "undo_last_day" /\ ~IsNone(before)) => session = Val(before)

\* the days of the session that wrapped the billing cycle
WrapDays ==
    { d \in 1..(Len(simulation_days) - 1) :
        ~IsNone(reserved) /\ simulation_days[d + 1].billing_day = 1 }

\* C30: after any sequence of simulate_next_day and undo_last_day the
\* invoices list holds exactly one invoice per billing-cycle wrap among the
\* days still in simulation_days: none stale, none twice.
C30_InvoicesMatchWraps ==
    /\ Len(invoices) = Cardinality(WrapDays)
    /\ \A k \in 1..Len(invoices) : invoices[k].generated_on_day \in WrapDays
    /\ \A k, l \in 1..Len(invoices) :
          invoices[k].generated_on_day = invoices[l].generated_on_day => k = l

\* the same carry-over in the run_cli loop, on the last iteration
RunCliCarryOver ==
    Called =>
        /\ Len(Cl.accepted_history) = Cl.day_index
        /\ accepted_history = Append(Cl.accepted_history, R.accepted_spend)
        /\ wallet_balance = R.wallet_balance_end
        /\ Cl.day_index = 0 => Cl.wallet_balance = 0

====
